---- MODULE Spec2Model ----
(***************************************************************************)
(* Model of automol/graph/_stereo.py: the branch priority vector, the      *)
(* stereogenic atom and bond detectors, the stereomer enumeration loop,    *)
(* the compatibility filter and the neighbour sorter.                      *)
(*                                                                         *)
(* A molecular graph is a record                                           *)
(*   n    : number of backbone atoms, with keys 1..n                       *)
(*   sym  : key -> element symbol (a code that keeps the string order)     *)
(*   hyd  : key -> number of hydrogens attached to the atom                *)
(*   apar : key -> atom stereo parity (NoneVal, FalseVal, TrueVal)         *)
(*   bnds : set of bonds, each a two-element set of keys                   *)
(*   bord : bond -> bond order                                             *)
(*   bpar : bond -> bond stereo parity                                     *)
(*   hyb  : key -> resonance-dominant hybridization of the atom            *)
(*   rord : bond -> set of orders of the bond over the dominant resonances *)
(* The hydrogens of an atom carry keys above n in the explicit form of the *)
(* graph (HydKeys); hyb and rord are the answers of the resonance analysis *)
(* for this connectivity, which the stereo code only consumes.             *)
(*                                                                         *)
(* A priority vector, in Python a nested tuple                             *)
(*   (bnd_val, atm_val, sub_1, ..., sub_k)   or   (bnd_val,)   or   (),    *)
(* is written as the flat sequence of its leaves in order, with End        *)
(* closing every tuple: the encoding is one-to-one and lexicographic order *)
(* of the sequences is the order of the tuples (End is below every value). *)
(***************************************************************************)
EXTENDS Integers, Sequences, FiniteSets, TLC

\* ------------------------------------------------------------------ values

NoneVal == 99          \* Python None (an unset parity)
NegInf == -1           \* -numpy.inf, below False and True
FalseVal == 0
TrueVal == 1
End == -2              \* closes a tuple in the flat form of a priority vector
SmallRing == 8         \* rings with fewer bonds cannot carry a stereo bond

SymC == 1              \* 'C' < 'F' < 'N' < 'O' as Python compares strings
SymF == 2
SymN == 3
SymO == 4

bool_vals == <<FalseVal, TrueVal>>

\* ------------------------------------------------------------------ bounds

MaxRing == 8           \* largest ring of the ring family of input graphs
MaxShift == 1          \* key shifts among the renamings of an input graph
MaxAssigned == 1       \* parities already assigned in an input graph
MaxSortAtoms == 6      \* largest input graph given to the sorter
MaxNgbLen == 3         \* length of the neighbour sequence given to the sorter

\* ------------------------------------------------------------------ helpers

RECURSIVE SetToSeq(_)
\* the elements of a set of integers in ascending order (the order in which
\* CPython iterates a set of small non-negative integers)
SetToSeq(S) ==
    IF S = {} THEN <<>>
    ELSE LET m == CHOOSE x \in S : \A y \in S : x <= y
         IN <<m>> \o SetToSeq(S \ {m})

RECURSIVE Concat(_)
\* itertools.chain(*seqs)
Concat(seqs) ==
    IF seqs = <<>> THEN <<>> ELSE Head(seqs) \o Concat(Tail(seqs))

RECURSIVE LexLessFrom(_, _, _)
\* u < v decided from position i on, the positions before it being equal
LexLessFrom(u, v, i) ==
    IF i > Len(v) THEN FALSE
    ELSE IF i > Len(u) THEN TRUE
    ELSE IF u[i] = v[i] THEN LexLessFrom(u, v, i + 1)
    ELSE u[i] < v[i]

\* lexicographic order of two flat sequences of integers
LexLess(u, v) == LexLessFrom(u, v, 1)

\* ------------------------------------------------------------------ graph accessors

AtomKeys(g) == 1..g.n

RECURSIVE SumHyd(_, _)
SumHyd(g, k) == IF k = 0 THEN 0 ELSE g.hyd[k] + SumHyd(g, k - 1)

\* keys of the hydrogens of atom a in the explicit graph
HydKeys(g, a) == (g.n + SumHyd(g, a - 1) + 1)..(g.n + SumHyd(g, a))

explicit_hydrogen_keys(g) == (g.n + 1)..(g.n + SumHyd(g, g.n))

backbone_keys(g) == AtomKeys(g)

\* neighbours in the implicit graph (backbone only)
ImplicitNeighborKeys(g, a) == {b \in AtomKeys(g) : {a, b} \in g.bnds /\ b # a}

\* neighbours in the explicit graph
atom_neighbor_keys(g, a) ==
    IF a \in AtomKeys(g) THEN ImplicitNeighborKeys(g, a) \cup HydKeys(g, a)
    ELSE {b \in AtomKeys(g) : a \in HydKeys(g, b)}

\* bonds of the explicit graph
bonds(g) ==
    g.bnds \cup UNION {{{a, h} : h \in HydKeys(g, a)} : a \in AtomKeys(g)}

without_bond_orders(g) == [g EXCEPT !.bord = [b \in g.bnds |-> 1]]

without_stereo_parities(g) ==
    [g EXCEPT !.apar = [a \in AtomKeys(g) |-> NoneVal],
              !.bpar = [b \in g.bnds |-> NoneVal]]

\* dct : a function from some of the atom keys to parities
set_atom_stereo_parities(g, dct) ==
    [g EXCEPT !.apar = [a \in AtomKeys(g) |->
                            IF a \in DOMAIN dct THEN dct[a] ELSE g.apar[a]]]

set_bond_stereo_parities(g, dct) ==
    [g EXCEPT !.bpar = [b \in g.bnds |->
                            IF b \in DOMAIN dct THEN dct[b] ELSE g.bpar[b]]]

\* valence of a backbone atom in the explicit graph: the orders of its
\* bonds, each hydrogen bonded with order 1
atom_bond_valence(g, a) ==
    IF a \notin AtomKeys(g) THEN 1
    ELSE LET nb == SetToSeq(ImplicitNeighborKeys(g, a))
             F[i \in 0..Len(nb)] ==
                 IF i = 0 THEN 0 ELSE g.bord[{a, nb[i]}] + F[i - 1]
         IN F[Len(nb)] + g.hyd[a]

\* a set of bonds in which every atom touched has exactly two bonds
AllDegreeTwo(R) ==
    \A a \in UNION R : Cardinality({b \in R : a \in b}) = 2

\* the rings of the graph, each as the set of its bonds
rings_bond_keys(g) ==
    {R \in SUBSET g.bnds :
        /\ R # {}
        /\ AllDegreeTwo(R)
        /\ \A S \in SUBSET R : (S # {} /\ S # R) => ~AllDegreeTwo(S)}

resonance_dominant_bond_orders(g) == g.rord

resonance_dominant_atom_hybridizations(g) == g.hyb

\* ------------------------------------------------------------------ stereo keys

atom_stereo_keys(g) ==
    {a \in AtomKeys(g) : g.apar[a] \in {TrueVal, FalseVal}}

bond_stereo_keys(g) ==
    {b \in g.bnds : g.bpar[b] \in {TrueVal, FalseVal}}

has_stereo(g) == atom_stereo_keys(g) # {} \/ bond_stereo_keys(g) # {}

\* ------------------------------------------------------------------ priority vector

replace_nones_with_negative_infinity(seq) ==
    [i \in DOMAIN seq |-> IF seq[i] = NoneVal THEN NegInf ELSE seq[i]]

\* bnd_dct[frozenset({atm1_key, atm2_key})] of the implicit graph
BondValue(g, a1, a2) == <<g.bord[{a1, a2}], g.bpar[{a1, a2}]>>

\* atm_dct[atm2_key] of the implicit graph: the hydrogens are counted in
AtomValue(g, a) == <<g.sym[a], g.hyd[a], g.apar[a]>>

RECURSIVE priority_vector(_, _, _, _)
RECURSIVE next_vals(_, _, _, _)

\* _priority_vector(atm1_key, atm2_key, seen_keys): ret is the vector and
\* seen the content of the one set object all calls of a traversal update
priority_vector(g, atm1_key, atm2_key, seen_keys) ==
    LET bnd_val == replace_nones_with_negative_infinity(BondValue(g, atm1_key, atm2_key))
        atm_val == replace_nones_with_negative_infinity(AtomValue(g, atm2_key))
    IN IF atm2_key \in seen_keys
       THEN [ret |-> bnd_val \o <<End>>, seen |-> seen_keys]
       ELSE LET seen1 == seen_keys \cup {atm1_key, atm2_key}
                atm3_keys == ImplicitNeighborKeys(g, atm2_key) \ {atm1_key}
                sub == next_vals(g, atm2_key, SetToSeq(atm3_keys), seen1)
            IN [ret |-> bnd_val \o atm_val \o sub.ret \o <<End>>,
                seen |-> sub.seen]

\* the list comprehension over atm3_keys: the calls run in order on the
\* same set, so each sees what the earlier ones added
next_vals(g, atm2_key, atm3_seq, seen_keys) ==
    IF atm3_seq = <<>> THEN [ret |-> <<>>, seen |-> seen_keys]
    ELSE LET first == priority_vector(g, atm2_key, Head(atm3_seq), seen_keys)
             rest == next_vals(g, atm2_key, Tail(atm3_seq), first.seen)
         IN [ret |-> first.ret \o rest.ret, seen |-> rest.seen]

stereo_priority_vector(g, atm_key, atm_ngb_key) ==
    IF atm_ngb_key \notin backbone_keys(g)
    THEN <<End>>
    ELSE priority_vector(g, atm_key, atm_ngb_key, {}).ret

\* ------------------------------------------------------------------ detectors

\* not any(pv1 == pv2 for pv1, pv2 in itertools.combinations(pri_vecs, r=2))
PairwiseDifferent(pri_vecs) ==
    \A i, j \in 1..Len(pri_vecs) : i < j => pri_vecs[i] # pri_vecs[j]

AtomIsStereogenic(g, atm_key) ==
    LET atm_ngb_keys == SetToSeq(atom_neighbor_keys(g, atm_key))
        pri_vecs == [i \in 1..Len(atm_ngb_keys) |->
                        stereo_priority_vector(g, atm_key, atm_ngb_keys[i])]
    IN PairwiseDifferent(pri_vecs)

\* stereogenic_atom_keys with the atoms of assigned parity left in
stereogenic_atom_keys_with_assigned(xgr) ==
    LET g == without_bond_orders(xgr)
        all_keys == AtomKeys(g) \cup explicit_hydrogen_keys(g)
        atm_keys == {a \in all_keys : atom_bond_valence(g, a) = 4}
    IN {a \in atm_keys : AtomIsStereogenic(g, a)}

stereogenic_atom_keys(xgr) ==
    LET g == without_bond_orders(xgr)
        all_keys == AtomKeys(g) \cup explicit_hydrogen_keys(g)
        atm_keys == {a \in all_keys : atom_bond_valence(g, a) = 4}
                        \ atom_stereo_keys(g)
    IN {a \in atm_keys : AtomIsStereogenic(g, a)}

is_symmetric_on_bond(g, atm_key, atm_ngb_key) ==
    LET atm_ngb_keys == SetToSeq(atom_neighbor_keys(g, atm_key) \ {atm_ngb_key})
    IN CASE Len(atm_ngb_keys) = 0 -> TRUE
         [] Len(atm_ngb_keys) = 1 -> FALSE
         [] Len(atm_ngb_keys) = 2 ->
                stereo_priority_vector(g, atm_key, atm_ngb_keys[1]) =
                stereo_priority_vector(g, atm_key, atm_ngb_keys[2])

BondIsStereogenic(g, bnd_key) ==
    LET atm1_key == CHOOSE a \in bnd_key : TRUE
        atm2_key == CHOOSE a \in bnd_key : a # atm1_key
    IN ~(\/ is_symmetric_on_bond(g, atm1_key, atm2_key)
         \/ is_symmetric_on_bond(g, atm2_key, atm1_key))

\* stereogenic_bond_keys with the ring test off by one: len(x) <= 8
stereogenic_bond_keys_ring_off_by_one(xgr) ==
    LET g == without_bond_orders(xgr)
        bnd_ords == resonance_dominant_bond_orders(g)
        atm_hyb == resonance_dominant_atom_hybridizations(g)
        sp2_atm_keys == {a \in DOMAIN atm_hyb : atm_hyb[a] = 2}
        dbl_keys == {b \in DOMAIN bnd_ords : 2 \in bnd_ords[b]}
        sp2_keys == {b \in dbl_keys : b \subseteq sp2_atm_keys}
        small == UNION {R \in rings_bond_keys(g) : Cardinality(R) <= SmallRing}
        bnd_keys == (sp2_keys \ bond_stereo_keys(g)) \ small
    IN {b \in bnd_keys : BondIsStereogenic(g, b)}

stereogenic_bond_keys(xgr) ==
    LET g == without_bond_orders(xgr)
        bnd_ords == resonance_dominant_bond_orders(g)
        atm_hyb == resonance_dominant_atom_hybridizations(g)
        sp2_atm_keys == {a \in DOMAIN atm_hyb : atm_hyb[a] = 2}
        dbl_keys == {b \in DOMAIN bnd_ords : 2 \in bnd_ords[b]}
        sp2_keys == {b \in dbl_keys : b \subseteq sp2_atm_keys}
        small == UNION {R \in rings_bond_keys(g) : Cardinality(R) < SmallRing}
        bnd_keys == (sp2_keys \ bond_stereo_keys(g)) \ small
    IN {b \in bnd_keys : BondIsStereogenic(g, b)}

\* ------------------------------------------------------------------ stereomers

RECURSIVE Product(_)
\* itertools.product(bool_vals, repeat=k), in its order
Product(k) ==
    IF k = 0 THEN << <<>> >>
    ELSE LET rest == Product(k - 1)
             With(v) == [i \in 1..Len(rest) |-> <<v>> \o rest[i]]
         IN With(bool_vals[1]) \o With(bool_vals[2])

\* dict(zip(keys, vals)) for a sequence of keys
ZipDict(keys, vals) ==
    [k \in {keys[i] : i \in 1..Len(keys)} |->
        vals[CHOOSE i \in 1..Len(keys) : keys[i] = k]]

RECURSIVE BondsToSeq(_)
\* a set of bonds in a fixed order (lowest key first)
BondsToSeq(S) ==
    IF S = {} THEN <<>>
    ELSE LET Lo(b) == CHOOSE x \in b : \A y \in b : x <= y
             Hi(b) == CHOOSE x \in b : \A y \in b : y <= x
             m == CHOOSE b \in S : \A c \in S :
                      Lo(b) < Lo(c) \/ (Lo(b) = Lo(c) /\ Hi(b) <= Hi(c))
         IN <<m>> \o BondsToSeq(S \ {m})

expand_atom_stereo(sgr) ==
    LET atm_ste_keys == SetToSeq(stereogenic_atom_keys(sgr))
        vals == Product(Len(atm_ste_keys))
    IN [i \in 1..Len(vals) |->
           set_atom_stereo_parities(sgr, ZipDict(atm_ste_keys, vals[i]))]

expand_bond_stereo(sgr) ==
    LET bnd_ste_keys == BondsToSeq(stereogenic_bond_keys(sgr))
        vals == Product(Len(bnd_ste_keys))
    IN [i \in 1..Len(vals) |->
           set_bond_stereo_parities(sgr, ZipDict(bnd_ste_keys, vals[i]))]

\* the canonical comparable form of a graph: atoms by key, then bonds by
\* keys, an unset parity lowest
frozen(g) ==
    LET bs == BondsToSeq(g.bnds)
        Lo(b) == CHOOSE x \in b : \A y \in b : x <= y
        Hi(b) == CHOOSE x \in b : \A y \in b : y <= x
    IN Concat([a \in 1..g.n |->
           <<a>> \o replace_nones_with_negative_infinity(AtomValue(g, a))])
       \o Concat([i \in 1..Len(bs) |->
           <<Lo(bs[i]), Hi(bs[i])>> \o
           replace_nones_with_negative_infinity(
               <<g.bord[bs[i]], g.bpar[bs[i]]>>)])

RECURSIVE InsertIndexBeforeEqual(_, _, _)
\* the insertion step with index x put before the indices of an equal vector
InsertIndexBeforeEqual(idxs, x, vecs) ==
    IF idxs = <<>> THEN <<x>>
    ELSE IF ~LexLess(vecs[idxs[Len(idxs)]], vecs[x])
         THEN InsertIndexBeforeEqual(SubSeq(idxs, 1, Len(idxs) - 1), x, vecs)
                  \o <<idxs[Len(idxs)]>>
         ELSE idxs \o <<x>>

RECURSIVE InsertIndex(_, _, _)
\* insertion sort step: index x goes below the indices whose vector is
\* above its own, and stays behind those with an equal vector
InsertIndex(idxs, x, vecs) ==
    IF idxs = <<>> THEN <<x>>
    ELSE IF LexLess(vecs[x], vecs[idxs[Len(idxs)]])
         THEN InsertIndex(SubSeq(idxs, 1, Len(idxs) - 1), x, vecs)
                  \o <<idxs[Len(idxs)]>>
         ELSE idxs \o <<x>>

RECURSIVE ArgSortUpTo(_, _)
ArgSortUpTo(vecs, k) ==
    IF k = 0 THEN <<>> ELSE InsertIndex(ArgSortUpTo(vecs, k - 1), k, vecs)

\* the indices of vecs in ascending order of the vectors, stable
ArgSort(vecs) == ArgSortUpTo(vecs, Len(vecs))

\* sorted(sgrs, key=frozen)
SortedByFrozen(sgrs) ==
    LET idxs == ArgSort([i \in 1..Len(sgrs) |-> frozen(sgrs[i])])
    IN [i \in 1..Len(sgrs) |-> sgrs[idxs[i]]]

\* ------------------------------------------------------------------ substereomers

\* _assigned(parities).items() as a set of <<key, parity>>
AssignedAtomItems(g) ==
    {<<a, g.apar[a]>> : a \in {k \in AtomKeys(g) : g.apar[k] # NoneVal}}

AssignedBondItems(g) ==
    {<<b, g.bpar[b]>> : b \in {k \in g.bnds : g.bpar[k] # NoneVal}}

\* _is_compatible comparing the atom parities only
is_compatible_atoms_only(xgr, sgr) ==
    AssignedAtomItems(xgr) \subseteq AssignedAtomItems(sgr)

is_compatible(xgr, sgr) ==
    /\ AssignedAtomItems(xgr) \subseteq AssignedAtomItems(sgr)
    /\ AssignedBondItems(xgr) \subseteq AssignedBondItems(sgr)

\* ------------------------------------------------------------------ sorter

\* numpy.argsort of an object array of at most 16 entries is an insertion
\* sort on the vectors, which is stable
stereo_sorted_atom_neighbor_keys(g, atm_key, atm_ngb_keys) ==
    LET atm_pri_vecs == [i \in 1..Len(atm_ngb_keys) |->
                            stereo_priority_vector(g, atm_key, atm_ngb_keys[i])]
        sort_idxs == ArgSort(atm_pri_vecs)
    IN [i \in 1..Len(atm_ngb_keys) |-> atm_ngb_keys[sort_idxs[i]]]

\* ------------------------------------------------------------------ input graphs

\* a graph from its Lewis structure: single and double bonds, and deloc,
\* the bonds that are double in some but not all dominant resonances
Molecule(sym, hyd, single, double, deloc) ==
    LET n == Len(sym)
        bnds == single \cup double \cup deloc
        NDouble(a) == Cardinality({b \in double : a \in b})
        Pi(a) == \E b \in double \cup deloc : a \in b
    IN [n |-> n, sym |-> sym, hyd |-> hyd,
        apar |-> [a \in 1..n |-> NoneVal],
        bnds |-> bnds,
        bord |-> [b \in bnds |-> IF b \in double THEN 2 ELSE 1],
        bpar |-> [b \in bnds |-> NoneVal],
        hyb |-> [a \in 1..n |-> IF NDouble(a) >= 2 THEN 1
                                ELSE IF Pi(a) THEN 2 ELSE 3],
        rord |-> [b \in bnds |-> IF b \in double THEN {2}
                                 ELSE IF b \in deloc THEN {1, 2} ELSE {1}]]

\* the cycloalkene with n ring atoms, its double bond between atoms 1 and 2
Cycloalkene(n) ==
    Molecule([a \in 1..n |-> SymC],
             [a \in 1..n |-> IF a <= 2 THEN 1 ELSE 2],
             {{a, a + 1} : a \in 2..(n - 1)} \cup {{n, 1}},
             {{1, 2}}, {})

Skeletons ==
    { \* CHF(NH2)(OH): one stereogenic atom
      Molecule(<<SymC, SymF, SymN, SymO>>, <<1, 0, 2, 1>>,
               {{1, 2}, {1, 3}, {1, 4}}, {}, {}),
      \* CH2F(OH): two hydrogens on the carbon
      Molecule(<<SymC, SymF, SymO>>, <<2, 0, 1>>, {{1, 2}, {1, 3}}, {}, {}),
      \* CHF=CHF: a stereogenic bond
      Molecule(<<SymC, SymC, SymF, SymF>>, <<1, 1, 0, 0>>,
               {{1, 3}, {2, 4}}, {{1, 2}}, {}),
      \* CH2=CHF: one end symmetric
      Molecule(<<SymC, SymC, SymF>>, <<2, 1, 0>>, {{2, 3}}, {{1, 2}}, {}),
      \* CHF=O: the oxygen has no other neighbour
      Molecule(<<SymC, SymO, SymF>>, <<1, 0, 0>>, {{1, 3}}, {{1, 2}}, {}),
      \* CHF=NH: the nitrogen has one other neighbour
      Molecule(<<SymC, SymN, SymF>>, <<1, 1, 0>>, {{1, 3}}, {{1, 2}}, {}),
      \* CHF(CH=NH)2: the carbon is stereogenic once the two bonds differ
      Molecule(<<SymC, SymF, SymC, SymN, SymC, SymN>>, <<1, 0, 1, 1, 1, 1>>,
               {{1, 2}, {1, 3}, {1, 5}}, {{3, 4}, {5, 6}}, {}),
      \* 1-fluoro-3-hydroxycyclobutane: two identical ring branches
      Molecule(<<SymC, SymC, SymC, SymC, SymF, SymO>>, <<1, 2, 1, 2, 0, 1>>,
               {{1, 2}, {2, 3}, {3, 4}, {1, 4}, {1, 5}, {3, 6}}, {}, {}),
      \* CHF=C=CHF: the central carbon is sp
      Molecule(<<SymC, SymC, SymC, SymF, SymF>>, <<1, 0, 1, 0, 0>>,
               {{1, 4}, {3, 5}}, {{1, 2}, {2, 3}}, {}),
      \* CHF-CH-CHF, allyl: both carbon-carbon bonds delocalised
      Molecule(<<SymC, SymC, SymC, SymF, SymF>>, <<1, 1, 1, 0, 0>>,
               {{1, 4}, {3, 5}}, {}, {{1, 2}, {2, 3}}),
      \* bicyclo[1.1.0]butane: two fused three-membered rings
      Molecule(<<SymC, SymC, SymC, SymC>>, <<1, 2, 1, 2>>,
               {{1, 2}, {2, 3}, {1, 3}, {3, 4}, {1, 4}}, {}, {}),
      \* CHF(OH)-CHF(NH2): two stereogenic atoms
      Molecule(<<SymC, SymC, SymF, SymF, SymO, SymN>>, <<1, 1, 0, 0, 1, 2>>,
               {{1, 2}, {1, 3}, {2, 4}, {1, 5}, {2, 6}}, {}, {}) }
    \cup {Cycloalkene(n) : n \in {5, MaxRing - 1, MaxRing}}

\* the graph with key a renamed p[a]
Relabel(g, p) ==
    LET inv == [k \in 1..g.n |-> CHOOSE a \in 1..g.n : p[a] = k]
        Old(b) == {inv[k] : k \in b}
        bnds == {{p[a] : a \in b} : b \in g.bnds}
    IN [n |-> g.n,
        sym |-> [k \in 1..g.n |-> g.sym[inv[k]]],
        hyd |-> [k \in 1..g.n |-> g.hyd[inv[k]]],
        apar |-> [k \in 1..g.n |-> g.apar[inv[k]]],
        bnds |-> bnds,
        bord |-> [b \in bnds |-> g.bord[Old(b)]],
        bpar |-> [b \in bnds |-> g.bpar[Old(b)]],
        hyb |-> [k \in 1..g.n |-> g.hyb[inv[k]]],
        rord |-> [b \in bnds |-> g.rord[Old(b)]]]

\* renamings of the keys 1..n: the keys shifted round by at most MaxShift,
\* in ascending or in descending order
Relabelings(n) ==
    {[a \in 1..n |-> ((a - 1 + k) % n) + 1] : k \in 0..MaxShift}
    \cup {[a \in 1..n |-> ((n - a + k) % n) + 1] : k \in 0..MaxShift}

\* the atoms and bonds that may carry a parity in an input graph: atoms
\* with four neighbours, at most one of them a hydrogen, and double bonds
CandidateAtoms(g) ==
    {a \in AtomKeys(g) :
        /\ Cardinality(ImplicitNeighborKeys(g, a)) + g.hyd[a] = 4
        /\ g.hyd[a] <= 1}

CandidateBonds(g) == {b \in g.bnds : 2 \in g.rord[b]}

\* g with at most k parities assigned
Assigned(g, k) ==
    {set_bond_stereo_parities(set_atom_stereo_parities(g, fa), fb) :
        fa \in UNION {[A -> {FalseVal, TrueVal}] : A \in SUBSET CandidateAtoms(g)},
        fb \in UNION {[B -> {FalseVal, TrueVal}] :
                        B \in {C \in SUBSET CandidateBonds(g) : Cardinality(C) <= k}}}

InputGraphs ==
    UNION {UNION {{h \in Assigned(Relabel(s, p), MaxAssigned) :
                      Cardinality(atom_stereo_keys(h)) +
                      Cardinality(bond_stereo_keys(h)) <= MaxAssigned} :
                  p \in Relabelings(s.n)} : s \in Skeletons}

\* ------------------------------------------------------------------ state

VARIABLES
    xgr,          \* the graph the operation is called on
    pc,           \* where the operation stands
    sgrs,         \* stereomers: the working list
    last_sgrs,    \* stereomers: the working list one iteration before
    stereos,      \* what stereomers(xgr) returned
    substereos,   \* what substereomers(xgr) returned
    atm_key,      \* the atom argument of the priority vector or the sorter
    atm_ngb_keys, \* the neighbour argument: a sequence of keys
    stack,        \* the active calls of _priority_vector, innermost last
    seen_keys,    \* the set of seen keys of this traversal
    expanded,     \* the atoms recursed into so far, in order
    pri_vec,      \* what stereo_priority_vector returned
    sorted_keys,  \* what the sorter returned
    resorted_keys \* what the sorter returned for its own result

vars == <<xgr, pc, sgrs, last_sgrs, stereos, substereos, atm_key, atm_ngb_keys,
          stack, seen_keys, expanded, pri_vec, sorted_keys, resorted_keys>>

enum_vars == <<sgrs, last_sgrs, stereos, substereos>>

vec_vars == <<atm_key, atm_ngb_keys, stack, seen_keys, expanded, pri_vec,
              sorted_keys, resorted_keys>>

Idle ==
    /\ sgrs = <<>> /\ last_sgrs = <<>> /\ stereos = <<>> /\ substereos = <<>>
    /\ atm_key = 0 /\ atm_ngb_keys = <<>> /\ stack = <<>> /\ seen_keys = {}
    /\ expanded = <<>> /\ pri_vec = <<>> /\ sorted_keys = <<>>
    /\ resorted_keys = <<>>

\* ------------------------------------------------------------------ stereomers, substereomers

Init ==
    /\ xgr \in InputGraphs
    /\ pc = "stereomers"
    /\ Idle

\* the loop started from the graph with its parities left in
BeginWithParities ==
    /\ pc = "stereomers"
    /\ last_sgrs' = <<>>
    /\ sgrs' = <<xgr>>
    /\ pc' = "while"
    /\ UNCHANGED <<xgr, stereos, substereos, vec_vars>>

\* last_sgrs = []; sgrs = [without_stereo_parities(xgr)]
Begin ==
    /\ pc = "stereomers"
    /\ last_sgrs' = <<>>
    /\ sgrs' = <<without_stereo_parities(xgr)>>
    /\ pc' = "while"
    /\ UNCHANGED <<xgr, stereos, substereos, vec_vars>>

\* the loop body run once instead of to the fixed point
WhileTestOnce ==
    /\ pc = "while"
    /\ pc' = IF last_sgrs = <<>> THEN "atom_pass" ELSE "return"
    /\ UNCHANGED <<xgr, enum_vars, vec_vars>>

\* while sgrs != last_sgrs
WhileTest ==
    /\ pc = "while"
    /\ pc' = IF sgrs # last_sgrs THEN "atom_pass" ELSE "return"
    /\ UNCHANGED <<xgr, enum_vars, vec_vars>>

\* the atom pass without the assignment last_sgrs = sgrs
AtomPassKeepLast ==
    /\ pc = "atom_pass"
    /\ last_sgrs' = last_sgrs
    /\ sgrs' = Concat([i \in 1..Len(sgrs) |-> expand_atom_stereo(sgrs[i])])
    /\ pc' = "bond_pass"
    /\ UNCHANGED <<xgr, stereos, substereos, vec_vars>>

\* last_sgrs = sgrs; sgrs = chain(*map(_expand_atom_stereo, sgrs))
AtomPass ==
    /\ pc = "atom_pass"
    /\ last_sgrs' = sgrs
    /\ sgrs' = Concat([i \in 1..Len(sgrs) |-> expand_atom_stereo(sgrs[i])])
    /\ pc' = "bond_pass"
    /\ UNCHANGED <<xgr, stereos, substereos, vec_vars>>

\* sgrs = chain(*map(_expand_bond_stereo, sgrs))
BondPass ==
    /\ pc = "bond_pass"
    /\ sgrs' = Concat([i \in 1..Len(sgrs) |-> expand_bond_stereo(sgrs[i])])
    /\ pc' = "while"
    /\ UNCHANGED <<xgr, last_sgrs, stereos, substereos, vec_vars>>

\* the working list returned as it is, not sorted
ReturnUnsorted ==
    /\ pc = "return"
    /\ stereos' = sgrs
    /\ pc' = "returned"
    /\ UNCHANGED <<xgr, sgrs, last_sgrs, substereos, vec_vars>>

\* return tuple(sorted(sgrs, key=frozen))
Return ==
    /\ pc = "return"
    /\ stereos' = SortedByFrozen(sgrs)
    /\ pc' = "returned"
    /\ UNCHANGED <<xgr, sgrs, last_sgrs, substereos, vec_vars>>

\* substereomers: tuple(filter(_is_compatible, stereomers(xgr)))
Filter ==
    /\ pc = "returned"
    /\ substereos' = SelectSeq(stereos, LAMBDA sgr : is_compatible(xgr, sgr))
    /\ pc' = "filtered"
    /\ UNCHANGED <<xgr, sgrs, last_sgrs, stereos, vec_vars>>

Next == Begin \/ WhileTest \/ AtomPass \/ BondPass \/ Return \/ Filter

\* Next can take a step exactly when the caller has not yet got its result
Running == pc # "filtered"

\* The code is sequential: a step that can be taken is taken. This is
\* WF_vars(Next), that is []<>(~ENABLED <<Next>>_vars) \/ []<><<Next>>_vars,
\* with ENABLED <<Next>>_vars written as the state predicate it equals.
Spec == Init /\ [][Next]_vars /\ ([]<>(~Running) \/ []<><<Next>>_vars)

\* ------------------------------------------------------------------ priority vector, step by step

\* a call of _priority_vector: at "call" it has just been entered, at "loop"
\* it is in the list comprehension with todo the atm3 keys still to visit
\* and ret the part of its vector built so far
Frame(a1, a2) == [atm1 |-> a1, atm2 |-> a2, phase |-> "call",
                  todo |-> <<>>, ret |-> <<>>]

Top == stack[Len(stack)]

\* the innermost call returns vec: to the call below it, or to the caller
ReturnVec(vec) ==
    IF Len(stack) = 1
    THEN /\ stack' = <<>>
         /\ pri_vec' = vec
         /\ pc' = "vector"
    ELSE /\ stack' = [SubSeq(stack, 1, Len(stack) - 1) EXCEPT
                         ![Len(stack) - 1].ret = @ \o vec]
         /\ pc' = pc
         /\ pri_vec' = pri_vec

InitVec ==
    /\ xgr \in InputGraphs
    /\ pc = "idle"
    /\ Idle

\* stereo_priority_vector(xgr, a, n) for a hydrogen n: the empty vector
HydrogenVector(a, n) ==
    /\ pc = "idle"
    /\ n \notin backbone_keys(xgr)
    /\ atm_key' = a
    /\ atm_ngb_keys' = <<n>>
    /\ pri_vec' = <<End>>
    /\ pc' = "vector"
    /\ UNCHANGED <<xgr, enum_vars, stack, seen_keys, expanded, sorted_keys,
                   resorted_keys>>

\* stereo_priority_vector(xgr, a, n): _priority_vector(a, n, set())
StartVector(a, n) ==
    /\ pc = "idle"
    /\ n \in backbone_keys(xgr)
    /\ atm_key' = a
    /\ atm_ngb_keys' = <<n>>
    /\ stack' = <<Frame(a, n)>>
    /\ seen_keys' = {}
    /\ pc' = "traverse"
    /\ UNCHANGED <<xgr, enum_vars, expanded, pri_vec, sorted_keys,
                   resorted_keys>>

\* if atm2_key in seen_keys: ret = (bnd_val,)
Truncate ==
    /\ pc = "traverse"
    /\ Top.phase = "call"
    /\ Top.atm2 \in seen_keys
    /\ ReturnVec(replace_nones_with_negative_infinity(
                     BondValue(xgr, Top.atm1, Top.atm2)) \o <<End>>)
    /\ UNCHANGED <<xgr, enum_vars, atm_key, atm_ngb_keys, seen_keys, expanded,
                   sorted_keys, resorted_keys>>

\* the expansion marking only the atom it came from: seen_keys.update({atm1_key})
ExpandMarkOrigin ==
    /\ pc = "traverse"
    /\ Top.phase = "call"
    /\ Top.atm2 \notin seen_keys
    /\ seen_keys' = seen_keys \cup {Top.atm1}
    /\ expanded' = Append(expanded, Top.atm2)
    /\ stack' = [stack EXCEPT ![Len(stack)] =
           [@ EXCEPT !.phase = "loop",
                     !.todo = SetToSeq(ImplicitNeighborKeys(xgr, Top.atm2)
                                           \ {Top.atm1}),
                     !.ret = replace_nones_with_negative_infinity(
                                 BondValue(xgr, Top.atm1, Top.atm2))
                             \o replace_nones_with_negative_infinity(
                                 AtomValue(xgr, Top.atm2))]]
    /\ UNCHANGED <<xgr, pc, enum_vars, atm_key, atm_ngb_keys, pri_vec,
                   sorted_keys, resorted_keys>>

\* else: seen_keys.update({atm1_key, atm2_key}); atm3_keys = ...
Expand ==
    /\ pc = "traverse"
    /\ Top.phase = "call"
    /\ Top.atm2 \notin seen_keys
    /\ seen_keys' = seen_keys \cup {Top.atm1, Top.atm2}
    /\ expanded' = Append(expanded, Top.atm2)
    /\ stack' = [stack EXCEPT ![Len(stack)] =
           [@ EXCEPT !.phase = "loop",
                     !.todo = SetToSeq(ImplicitNeighborKeys(xgr, Top.atm2)
                                           \ {Top.atm1}),
                     !.ret = replace_nones_with_negative_infinity(
                                 BondValue(xgr, Top.atm1, Top.atm2))
                             \o replace_nones_with_negative_infinity(
                                 AtomValue(xgr, Top.atm2))]]
    /\ UNCHANGED <<xgr, pc, enum_vars, atm_key, atm_ngb_keys, pri_vec,
                   sorted_keys, resorted_keys>>

\* _priority_vector(atm2_key, atm3_key, seen_keys) for the next atm3_key
Recurse ==
    /\ pc = "traverse"
    /\ Top.phase = "loop"
    /\ Top.todo # <<>>
    /\ stack' = Append([stack EXCEPT ![Len(stack)].todo = Tail(@)],
                       Frame(Top.atm2, Head(Top.todo)))
    /\ UNCHANGED <<xgr, pc, enum_vars, atm_key, atm_ngb_keys, seen_keys,
                   expanded, pri_vec, sorted_keys, resorted_keys>>

\* ret = (bnd_val, atm_val) + next_vals; return
Finish ==
    /\ pc = "traverse"
    /\ Top.phase = "loop"
    /\ Top.todo = <<>>
    /\ ReturnVec(Top.ret \o <<End>>)
    /\ UNCHANGED <<xgr, enum_vars, atm_key, atm_ngb_keys, seen_keys, expanded,
                   sorted_keys, resorted_keys>>

\* ------------------------------------------------------------------ sorter, as called

RECURSIVE DistinctSeqs(_, _)
\* the sequences of at most k different elements of S
DistinctSeqs(S, k) ==
    IF k = 0 THEN {<<>>}
    ELSE LET prev == DistinctSeqs(S, k - 1)
             Fresh(q) == {x \in S : \A i \in 1..Len(q) : q[i] # x}
         IN prev \cup UNION {{Append(q, x) : x \in Fresh(q)} : q \in prev}

Sort(a, keys) ==
    /\ pc = "idle"
    /\ atm_key' = a
    /\ atm_ngb_keys' = keys
    /\ sorted_keys' = stereo_sorted_atom_neighbor_keys(xgr, a, keys)
    /\ pc' = "sorted"
    /\ UNCHANGED <<xgr, enum_vars, stack, seen_keys, expanded, pri_vec,
                   resorted_keys>>

SortAgain ==
    /\ pc = "sorted"
    /\ resorted_keys' =
           stereo_sorted_atom_neighbor_keys(xgr, atm_key, sorted_keys)
    /\ pc' = "resorted"
    /\ UNCHANGED <<xgr, enum_vars, atm_key, atm_ngb_keys, stack, seen_keys,
                   expanded, pri_vec, sorted_keys>>

NextVec ==
    \/ \E a \in AtomKeys(xgr) : \E n \in atom_neighbor_keys(xgr, a) :
           HydrogenVector(a, n) \/ StartVector(a, n)
    \/ Truncate
    \/ Expand
    \/ Recurse
    \/ Finish

\* NextVec can take a step exactly when no vector has been returned yet
RunningVec == pc # "vector"

\* The traversal is sequential code: WF_vars(NextVec), with
\* ENABLED <<NextVec>>_vars written as the state predicate it equals.
SpecVec ==
    InitVec /\ [][NextVec]_vars /\ ([]<>(~RunningVec) \/ []<><<NextVec>>_vars)

NextSort ==
    \/ \E a \in AtomKeys(xgr) :
           \E keys \in DistinctSeqs(atom_neighbor_keys(xgr, a), MaxNgbLen) :
               Sort(a, keys)
    \/ SortAgain

\* the sorter is called on the input graphs of at most MaxSortAtoms atoms
InitSort ==
    /\ xgr \in {g \in InputGraphs : g.n <= MaxSortAtoms}
    /\ pc = "idle"
    /\ Idle

SpecSort == InitSort /\ [][NextSort]_vars

\* ------------------------------------------------------------------ properties

\* the elements of a sequence
Range(q) == {q[i] : i \in 1..Len(q)}

NoRepeat(q) == \A i, j \in 1..Len(q) : i < j => q[i] # q[j]

\* every graph of the current state
CurrentGraphs == {xgr} \cup Range(sgrs) \cup Range(stereos)

Returned == pc \in {"returned", "filtered"}

\* number of neighbours of a backbone atom, hydrogens included
NeighborCount(g, a) == Cardinality({b \in g.bnds : a \in b}) + g.hyd[a]

\* g and h are the same graph up to the parity fields
SameButParities(g, h) ==
    /\ g.n = h.n /\ g.sym = h.sym /\ g.hyd = h.hyd /\ g.bnds = h.bnds
    /\ g.bord = h.bord /\ g.hyb = h.hyb /\ g.rord = h.rord

\* every parity assigned in g is the parity of h
Keeps(g, h) ==
    /\ \A a \in AtomKeys(g) : g.apar[a] # NoneVal => h.apar[a] = g.apar[a]
    /\ \A b \in g.bnds : g.bpar[b] # NoneVal => h.bpar[b] = g.bpar[b]

\* ---- C1

\* C1: the fixed-point loop of stereomers terminates for every input graph,
\* and when it leaves the loop the working list is the list of the
\* iteration before.
C1_LoopTerminates ==
    /\ <>(pc = "returned")
    /\ [](pc = "return" => sgrs = last_sgrs)

\* the loop returned after an atom was given a parity in a later iteration
\* than a bond
C1_Witness ==
    /\ pc = "returned"
    /\ stereogenic_atom_keys(without_stereo_parities(xgr)) = {}
    /\ \E i \in 1..Len(stereos) :
           atom_stereo_keys(stereos[i]) # {} /\ bond_stereo_keys(stereos[i]) # {}

\* ---- C2

\* C2: the traversal of stereo_priority_vector ends for every bonded pair,
\* no atom is recursed into twice within it, and the vector it returns is
\* the one the recursive definition gives.
C2_VectorTerminates ==
    /\ [](pc = "traverse" => <>(pc = "vector"))
    /\ [](NoRepeat(expanded))
    /\ [](pc = "vector" =>
             pri_vec = stereo_priority_vector(xgr, atm_key, atm_ngb_keys[1]))

\* a traversal that ended in a graph of two fused rings, every atom but the
\* one it started from recursed into
C2_Witness ==
    /\ pc = "vector"
    /\ Cardinality(rings_bond_keys(xgr)) >= 2
    /\ Len(expanded) = xgr.n - 1

\* ---- C3

RECURSIVE AutomorphismsUpTo(_, _)
\* the one-to-one maps of the atoms 1..k into the atoms of g that keep the
\* atom values, the hybridizations, the bonds and the bond values
AutomorphismsUpTo(g, k) ==
    IF k = 0 THEN {<<>>}
    ELSE UNION {
           {Append(p, v) : v \in {w \in AtomKeys(g) :
               /\ \A j \in 1..(k - 1) : p[j] # w
               /\ AtomValue(g, w) = AtomValue(g, k)
               /\ g.hyb[w] = g.hyb[k]
               /\ \A j \in 1..(k - 1) :
                      /\ ({j, k} \in g.bnds) = ({p[j], w} \in g.bnds)
                      /\ {j, k} \in g.bnds =>
                             /\ BondValue(g, j, k) = BondValue(g, p[j], w)
                             /\ g.rord[{j, k}] = g.rord[{p[j], w}]}} :
           p \in AutomorphismsUpTo(g, k - 1)}

Automorphisms(g) == AutomorphismsUpTo(g, g.n)

\* C3: when an automorphism of the graph fixes an atom a of valence 4
\* without parity and maps its neighbour n1 to another neighbour n2, the
\* priority vectors of the two branches are equal and a is not stereogenic.
C3_Symmetry ==
    \A a \in AtomKeys(xgr) :
        (NeighborCount(xgr, a) = 4 /\ xgr.apar[a] = NoneVal) =>
            \A p \in Automorphisms(xgr) : \A n1 \in ImplicitNeighborKeys(xgr, a) :
                (p[a] = a /\ p[n1] # n1) =>
                    /\ stereo_priority_vector(xgr, a, n1) =
                       stereo_priority_vector(xgr, a, p[n1])
                    /\ a \notin stereogenic_atom_keys(xgr)

\* ---- C4

\* C4: stereogenic_atom_keys(g) is the set of atoms with four neighbours
\* (hydrogens counted, bond orders not), without assigned parity, whose
\* neighbour branches have pairwise different priority vectors in the graph
\* with its bond orders discarded; it is disjoint from atom_stereo_keys(g)
\* and holds no atom with two hydrogens.
C4_StereogenicAtoms ==
    \A g \in CurrentGraphs :
        LET h == without_bond_orders(g)
            keys == stereogenic_atom_keys(g)
        IN /\ keys = {a \in AtomKeys(g) :
                        /\ NeighborCount(g, a) = 4
                        /\ g.apar[a] \notin {TrueVal, FalseVal}
                        /\ \A m, n \in atom_neighbor_keys(g, a) :
                               m # n => stereo_priority_vector(h, a, m) #
                                        stereo_priority_vector(h, a, n)}
           /\ keys \cap atom_stereo_keys(g) = {}
           /\ \A a \in keys : g.hyd[a] <= 1

\* a graph with one atom of assigned parity and another that is stereogenic
C4_Witness ==
    /\ stereogenic_atom_keys(xgr) # {}
    /\ atom_stereo_keys(xgr) # {}
    /\ \E a \in AtomKeys(xgr) : NeighborCount(xgr, a) = 4 /\ xgr.hyd[a] = 2

\* ---- C5

\* the other neighbours of end a of the bond {a, b}
Others(g, a, b) == atom_neighbor_keys(g, a) \ {b}

SymmetricEnd(g, a, b) ==
    \/ Others(g, a, b) = {}
    \/ /\ Cardinality(Others(g, a, b)) = 2
       /\ \A m, n \in Others(g, a, b) :
              stereo_priority_vector(without_bond_orders(g), a, m) =
              stereo_priority_vector(without_bond_orders(g), a, n)

\* C5: stereogenic_bond_keys(g) is the set of bonds that are double in some
\* dominant resonance, join two sp2 atoms, have no assigned parity, lie in
\* no ring of fewer than 8 members and have no symmetric end; it is
\* disjoint from bond_stereo_keys(g).
C5_StereogenicBonds ==
    \A g \in CurrentGraphs :
        LET keys == stereogenic_bond_keys(g)
        IN /\ keys = {b \in g.bnds :
                        /\ 2 \in g.rord[b]
                        /\ \A a \in b : g.hyb[a] = 2
                        /\ g.bpar[b] \notin {TrueVal, FalseVal}
                        /\ \A R \in rings_bond_keys(g) :
                               b \in R => Cardinality(R) >= 8
                        /\ \A a \in b : \A c \in b :
                               a # c => ~SymmetricEnd(g, a, c)}
           /\ keys \cap bond_stereo_keys(g) = {}

\* the double bond of an eight-membered ring is stereogenic
C5_Witness ==
    \E R \in rings_bond_keys(xgr) :
        Cardinality(R) = 8 /\ stereogenic_bond_keys(xgr) \cap R # {}

\* ---- C6

\* C6 as stated: a graph without stereogenic atoms and bonds, parities
\* assigned or not, has exactly one stereomer, the graph without parities.
C6_Original ==
    (Returned /\ stereogenic_atom_keys(xgr) = {}
              /\ stereogenic_bond_keys(xgr) = {}) =>
        stereos = <<without_stereo_parities(xgr)>>

\* C6: a graph whose form without parities has no stereogenic atom and no
\* stereogenic bond has exactly one stereomer, the graph without parities.
C6_Amended ==
    (Returned /\ stereogenic_atom_keys(without_stereo_parities(xgr)) = {}
              /\ stereogenic_bond_keys(without_stereo_parities(xgr)) = {}) =>
        stereos = <<without_stereo_parities(xgr)>>

\* stereomers returned for a graph that carries a parity and whose form
\* without parities has nothing stereogenic
C6_Witness ==
    /\ Returned
    /\ has_stereo(xgr)
    /\ stereogenic_atom_keys(without_stereo_parities(xgr)) = {}
    /\ stereogenic_bond_keys(without_stereo_parities(xgr)) = {}

\* ---- C7

\* the place of graph s in the sequence q
Place(q, s) == CHOOSE i \in 1..Len(q) : q[i] = s

\* C7: substereomers(g) is the subsequence of stereomers(g), in its order,
\* of the graphs that keep every parity assigned in g; without assigned
\* parity in g it is stereomers(g).
C7_Substereomers ==
    pc = "filtered" =>
        /\ \A i \in 1..Len(substereos) :
               substereos[i] \in Range(stereos) /\ Keeps(xgr, substereos[i])
        /\ \A i \in 1..Len(stereos) :
               Keeps(xgr, stereos[i]) => stereos[i] \in Range(substereos)
        /\ \A i, j \in 1..Len(substereos) :
               i < j => Place(stereos, substereos[i]) < Place(stereos, substereos[j])
        /\ ~has_stereo(xgr) => substereos = stereos

\* the filter kept some stereomers and dropped others
C7_Witness ==
    /\ pc = "filtered"
    /\ Len(substereos) > 0
    /\ Len(substereos) < Len(stereos)

\* ---- C8

\* C8: no two entries of the working list are equal after any pass, and
\* stereomers returns the entries of the final working list in strictly
\* ascending order of their frozen form.
C8_SortedDistinct ==
    /\ NoRepeat(sgrs)
    /\ Returned =>
           /\ Range(stereos) = Range(sgrs)
           /\ Len(stereos) = Len(sgrs)
           /\ \A i, j \in 1..Len(stereos) :
                  i < j => LexLess(frozen(stereos[i]), frozen(stereos[j]))

\* stereomers returned several graphs in another order than the working list
C8_Witness ==
    /\ pc = "returned"
    /\ Len(stereos) >= 4
    /\ stereos # sgrs

\* ---- C9

\* q is r with its entries in another order
Permutation(q, r) ==
    /\ Len(q) = Len(r)
    /\ \A x \in Range(q) \cup Range(r) :
           Cardinality({i \in 1..Len(q) : q[i] = x}) =
           Cardinality({i \in 1..Len(r) : r[i] = x})

\* C9: the sorter returns its input keys in another order, their priority
\* vectors never descending along it, and returns its own result unchanged.
C9_Sorter ==
    /\ pc \in {"sorted", "resorted"} =>
           /\ Permutation(sorted_keys, atm_ngb_keys)
           /\ \A i, j \in 1..Len(sorted_keys) :
                  i < j => ~LexLess(
                      stereo_priority_vector(xgr, atm_key, sorted_keys[j]),
                      stereo_priority_vector(xgr, atm_key, sorted_keys[i]))
    /\ pc = "resorted" => resorted_keys = sorted_keys

\* three keys were sorted into another order, two of them hydrogens with
\* the same empty vector, and sorted again
C9_Witness ==
    /\ pc = "resorted"
    /\ Len(sorted_keys) = 3
    /\ sorted_keys # atm_ngb_keys
    /\ \E i, j \in 1..3 :
           /\ i < j
           /\ sorted_keys[i] \notin backbone_keys(xgr)
           /\ sorted_keys[j] \notin backbone_keys(xgr)
           /\ sorted_keys[j] < sorted_keys[i]

\* ---- C10

\* every graph of the list q has a graph of the list r that keeps its
\* parities, and every graph of r comes from one of q this way
PassKeeps(q, r) ==
    /\ \A i \in 1..Len(q) : \E j \in 1..Len(r) : Keeps(q[i], r[j])
    /\ \A j \in 1..Len(r) : \E i \in 1..Len(q) : Keeps(q[i], r[j])

\* a pass of the loop keeps the parities of the working list
PassStep == (pc = "atom_pass" \/ pc = "bond_pass") => PassKeeps(sgrs, sgrs')

\* C10: every stereomer returned has no stereogenic atom and no stereogenic
\* bond left and is the input graph up to parities, and no pass changes or
\* unsets a parity assigned before.
C10_Resolved ==
    /\ [](Returned => \A i \in 1..Len(stereos) :
              /\ stereogenic_atom_keys(stereos[i]) = {}
              /\ stereogenic_bond_keys(stereos[i]) = {}
              /\ SameButParities(stereos[i], xgr))
    /\ [][PassStep]_vars

\* a stereomer with an atom parity that no atom could get in the first pass
C10_Witness ==
    /\ pc = "returned"
    /\ stereogenic_atom_keys(without_stereo_parities(xgr)) = {}
    /\ stereogenic_bond_keys(without_stereo_parities(xgr)) # {}
    /\ \E i \in 1..Len(stereos) : atom_stereo_keys(stereos[i]) # {}

====
